---- MODULE Spec2Model ----
(***************************************************************************)
(* Model of src/algorithms/bit_vector.h: a fixed-size bit vector packed    *)
(* eight bits per unsigned char, with bounds-checked set / clear / toggle  *)
(* / test, a counting loop and a to_string loop.                           *)
(*                                                                         *)
(* size_t is modelled as the unsigned integers of IndexBits bits with      *)
(* arithmetic modulo 2^IndexBits (the width is scaled down so that the     *)
(* wrap-around of size + BITS_PER_BYTE - 1 is within TLC's integers).      *)
(* An access data[i] with i >= data.size() is undefined behaviour: the     *)
(* model marks the object "ub", lets a read return any of a few values, and  *)
(* makes no further step: nothing is known of the program afterwards.      *)
(***************************************************************************)
EXTENDS Integers, Sequences, FiniteSets

VARIABLES data,      \* std::vector<unsigned char> data
          num_bits,  \* size_t num_bits
          status,    \* "none" (not constructed), "live", "ub"
          op,        \* name of the last member function called
          arg,       \* its argument (size or pos), 0 when it has none
          err,       \* "none" or "out_of_range": how the last call ended
          ret_bool,  \* what the last call returned when it was test
          ret_size,  \* what it returned when it was size or count
          ret_str,   \* what it returned when it was to_string
          pre,       \* data as it was when the last call was entered
          prevOp,    \* the call before the last one, when it was a successful
                     \* set/clear/toggle at the same position, else "none"
          ctor_size  \* the argument the constructor was given

vars == <<data, num_bits, status, op, arg, err, ret_bool, ret_size, ret_str,
          pre, prevOp, ctor_size>>

----------------------------------------------------------------------------
(* Bounds of the model *)

\* width of size_t in the model
IndexBits == 8
\* largest capacity whose states are explored exhaustively
MaxCap == 10

(* Program constants *)

BITS_PER_BYTE == 8

----------------------------------------------------------------------------
(* Integer helpers *)

RECURSIVE PowerOfTwo(_)
PowerOfTwo(k) == IF k = 0 THEN 1 ELSE 2 * PowerOfTwo(k - 1)

\* the powers of two the program uses, tabulated
Pow2Table == [k \in 0 .. IndexBits + 1 |-> PowerOfTwo(k)]
Pow2(k) == Pow2Table[k]

\* number of values of size_t, and its largest value
IndexMod == Pow2(IndexBits)
SIZE_MAX == IndexMod - 1

\* bit k of a two's complement integer x (\div is floor division)
Bit(x, k) == (x \div Pow2(k)) % 2

\* ~x on int
BitNot(x) == (-x) - 1

\* 1 << (pos % BITS_PER_BYTE)
Mask(pos) == Pow2(pos % BITS_PER_BYTE)

\* pos / BITS_PER_BYTE
ByteIndex(pos) == pos \div BITS_PER_BYTE

RECURSIVE Pack(_, _, _, _)
\* the unsigned char whose bit k is T[<<bit k of a, bit k of b>>]: the result
\* of a bitwise operator on int operands converted back to unsigned char
Pack(T, a, b, k) ==
  IF k = BITS_PER_BYTE THEN 0
  ELSE T[<<Bit(a, k), Bit(b, k)>>] * Pow2(k) + Pack(T, a, b, k + 1)

OrTable  == [x \in {0, 1} \X {0, 1} |-> IF x[1] = 1 \/ x[2] = 1 THEN 1 ELSE 0]
AndTable == [x \in {0, 1} \X {0, 1} |-> IF x[1] = 1 /\ x[2] = 1 THEN 1 ELSE 0]
XorTable == [x \in {0, 1} \X {0, 1} |-> IF x[1] # x[2] THEN 1 ELSE 0]

\* byte |= m
OrAssign(byte, m) == Pack(OrTable, byte, m, 0)
\* byte &= m
AndAssign(byte, m) == Pack(AndTable, byte, m, 0)
\* byte ^= m
XorAssign(byte, m) == Pack(XorTable, byte, m, 0)

\* the values of unsigned char and the bit offsets within one
UChar == 0 .. (Pow2(BITS_PER_BYTE) - 1)
BitOffsets == 0 .. (BITS_PER_BYTE - 1)

\* the four read-modify-write expressions, tabulated by the unit's value and
\* the bit offset (Mask(k) = 1 << k for an offset k)
SetTable == [byte \in UChar |-> [k \in BitOffsets |-> OrAssign(byte, Mask(k))]]
ClearTable == [byte \in UChar |-> [k \in BitOffsets |-> AndAssign(byte, BitNot(Mask(k)))]]
ToggleTable == [byte \in UChar |-> [k \in BitOffsets |-> XorAssign(byte, Mask(k))]]
TestTable == [byte \in UChar |-> [k \in BitOffsets |-> AndAssign(byte, Mask(k)) # 0]]

----------------------------------------------------------------------------
(* The member functions as functions of the fields *)

\* mutant: the check lets pos = num_bits through
OutOfRange_offByOne(pos, n) == pos > n

\* mutant: the check is made against the allocated bytes
OutOfRange_byStorage(pos, n) ==
  pos >= BITS_PER_BYTE * ((n + BITS_PER_BYTE - 1) \div BITS_PER_BYTE)

\* if (pos >= num_bits) throw std::out_of_range
OutOfRange(pos, n) == pos >= n

\* data[pos / BITS_PER_BYTE] is outside the vector
OutOfBounds(d, pos) == ByteIndex(pos) >= Len(d)

\* (size + BITS_PER_BYTE - 1) / BITS_PER_BYTE in size_t arithmetic
StorageLen(sz) == ((sz + BITS_PER_BYTE - 1) % IndexMod) \div BITS_PER_BYTE

\* data[...] |= (1 << (pos % BITS_PER_BYTE))
SetByte(byte, pos) == SetTable[byte][pos % BITS_PER_BYTE]

\* mutant: the mask is not complemented
ClearByte_noNot(byte, pos) == AndAssign(byte, Mask(pos))

\* data[...] &= ~(1 << (pos % BITS_PER_BYTE))
ClearByte(byte, pos) == ClearTable[byte][pos % BITS_PER_BYTE]

\* mutant: toggle only ever sets
ToggleByte_or(byte, pos) == OrAssign(byte, Mask(pos))

\* data[...] ^= (1 << (pos % BITS_PER_BYTE))
ToggleByte(byte, pos) == ToggleTable[byte][pos % BITS_PER_BYTE]

\* mutant: the most significant bit comes first
TestBit_msbFirst(d, pos) ==
  AndAssign(d[ByteIndex(pos) + 1], Pow2(BITS_PER_BYTE - 1 - (pos % BITS_PER_BYTE))) # 0

\* (data[pos / BITS_PER_BYTE] & (1 << (pos % BITS_PER_BYTE))) != 0
TestBit(d, pos) == TestTable[d[ByteIndex(pos) + 1]][pos % BITS_PER_BYTE]

\* mutant: the size is derived from the storage
SizeOf_fromStorage(d, n) == BITS_PER_BYTE * Len(d)

\* return num_bits
SizeOf(d, n) == n

RECURSIVE CountFrom(_, _, _, _)
\* the loop of count() from index i on, with c bits counted so far
CountFrom(d, n, i, c) ==
  IF i < n
  THEN CountFrom(d, n, i + 1, IF TestBit(d, i) THEN c + 1 ELSE c)
  ELSE c

\* mutant: the loop starts one position late
CountOf_skipFirst(d, n) == CountFrom(d, n, 1, 0)

\* size_t count = 0; for (size_t i = 0; i < num_bits; ++i) ...
CountOf(d, n) == CountFrom(d, n, 0, 0)

RECURSIVE ToStringFrom(_, _, _, _)
\* the loop of to_string() from index i on, with out built so far
ToStringFrom(d, n, i, out) ==
  IF i < n
  THEN ToStringFrom(d, n, i + 1, Append(out, IF TestBit(d, i) THEN "1" ELSE "0"))
  ELSE out

RECURSIVE ToStringRevFrom(_, _, _, _)
ToStringRevFrom(d, n, i, out) ==
  IF i < n
  THEN ToStringRevFrom(d, n, i + 1, <<IF TestBit(d, i) THEN "1" ELSE "0">> \o out)
  ELSE out

\* mutant: the characters are prepended
ToStringOf_reversed(d, n) == ToStringRevFrom(d, n, 0, <<>>)

\* std::string out; for (size_t i = 0; i < num_bits; ++i) out += ...
ToStringOf(d, n) == ToStringFrom(d, n, 0, <<>>)

\* count() and to_string() read a byte outside the vector
LoopOutOfBounds(d, n) == n > 0 /\ OutOfBounds(d, n - 1)

----------------------------------------------------------------------------
(* Inputs *)

\* capacities whose storage length does not wrap
Capacities == 0 .. MaxCap
\* capacities for which size + BITS_PER_BYTE - 1 exceeds SIZE_MAX
WrapCapacities == (SIZE_MAX - BITS_PER_BYTE + 2) .. SIZE_MAX
\* positions: every valid one, pos = capacity for every capacity, and (size_t)-1
Positions == (0 .. MaxCap) \cup {SIZE_MAX}

Mutators == {"set", "clear", "toggle"}
Accessors == Mutators \cup {"test"}

----------------------------------------------------------------------------
(* State machine *)

Init ==
  /\ data = <<>>
  /\ num_bits = 0
  /\ status = "none"
  /\ op = "none"
  /\ arg = 0
  /\ err = "none"
  /\ ret_bool = FALSE
  /\ ret_size = 0
  /\ ret_str = <<>>
  /\ pre = <<>>
  /\ prevOp = "none"
  /\ ctor_size = 0

\* bookkeeping of a call o(p) that ended with e
Called(o, p, e) ==
  /\ op' = o
  /\ arg' = p
  /\ err' = e
  /\ pre' = data
  /\ prevOp' = IF op \in Mutators /\ err = "none" /\ arg = p /\ o \in Mutators
               THEN op ELSE "none"

\* the call returns nothing
NoReturn == ret_bool' = FALSE /\ ret_size' = 0 /\ ret_str' = <<>>

\* bit_vector::bit_vector(size_t size)
bit_vector(sz) ==
  /\ status = "none"
  /\ num_bits' = sz
  /\ data' = [i \in 1 .. StorageLen(sz) |-> 0]
  /\ status' = "live"
  /\ ctor_size' = sz
  /\ Called("construct", sz, "none")
  /\ NoReturn

\* void bit_vector::set(size_t pos)
set(pos) ==
  /\ status = "live"
  /\ IF OutOfRange(pos, num_bits)
     THEN /\ Called("set", pos, "out_of_range")
          /\ UNCHANGED <<data, status>>
     ELSE IF OutOfBounds(data, pos)
     THEN /\ Called("set", pos, "none")
          /\ status' = "ub"
          /\ UNCHANGED data
     ELSE /\ Called("set", pos, "none")
          /\ data' = [data EXCEPT ![ByteIndex(pos) + 1] = SetByte(@, pos)]
          /\ UNCHANGED status
  /\ NoReturn
  /\ UNCHANGED <<num_bits, ctor_size>>

\* void bit_vector::clear(size_t pos)
clear(pos) ==
  /\ status = "live"
  /\ IF OutOfRange(pos, num_bits)
     THEN /\ Called("clear", pos, "out_of_range")
          /\ UNCHANGED <<data, status>>
     ELSE IF OutOfBounds(data, pos)
     THEN /\ Called("clear", pos, "none")
          /\ status' = "ub"
          /\ UNCHANGED data
     ELSE /\ Called("clear", pos, "none")
          /\ data' = [data EXCEPT ![ByteIndex(pos) + 1] = ClearByte(@, pos)]
          /\ UNCHANGED status
  /\ NoReturn
  /\ UNCHANGED <<num_bits, ctor_size>>

\* void bit_vector::toggle(size_t pos)
toggle(pos) ==
  /\ status = "live"
  /\ IF OutOfRange(pos, num_bits)
     THEN /\ Called("toggle", pos, "out_of_range")
          /\ UNCHANGED <<data, status>>
     ELSE IF OutOfBounds(data, pos)
     THEN /\ Called("toggle", pos, "none")
          /\ status' = "ub"
          /\ UNCHANGED data
     ELSE /\ Called("toggle", pos, "none")
          /\ data' = [data EXCEPT ![ByteIndex(pos) + 1] = ToggleByte(@, pos)]
          /\ UNCHANGED status
  /\ NoReturn
  /\ UNCHANGED <<num_bits, ctor_size>>

\* bool bit_vector::test(size_t pos) const
test(pos) ==
  /\ status = "live"
  /\ IF OutOfRange(pos, num_bits)
     THEN /\ Called("test", pos, "out_of_range")
          /\ ret_bool' = FALSE
          /\ UNCHANGED status
     ELSE IF OutOfBounds(data, pos)
     THEN /\ Called("test", pos, "none")
          /\ ret_bool' \in BOOLEAN
          /\ status' = "ub"
     ELSE /\ Called("test", pos, "none")
          /\ ret_bool' = TestBit(data, pos)
          /\ UNCHANGED status
  /\ ret_size' = 0
  /\ ret_str' = <<>>
  /\ UNCHANGED <<data, num_bits, ctor_size>>

\* size_t bit_vector::size() const
size ==
  /\ status = "live"
  /\ Called("size", 0, "none")
  /\ ret_size' = SizeOf(data, num_bits)
  /\ ret_bool' = FALSE
  /\ ret_str' = <<>>
  /\ UNCHANGED <<data, num_bits, status, ctor_size>>

\* size_t bit_vector::count() const
count ==
  /\ status = "live"
  /\ Called("count", 0, "none")
  /\ IF LoopOutOfBounds(data, num_bits)
     THEN /\ ret_size' \in {0, num_bits}
          /\ status' = "ub"
     ELSE /\ ret_size' = CountOf(data, num_bits)
          /\ UNCHANGED status
  /\ ret_bool' = FALSE
  /\ ret_str' = <<>>
  /\ UNCHANGED <<data, num_bits, ctor_size>>

\* std::string bit_vector::to_string() const
to_string ==
  /\ status = "live"
  /\ Called("to_string", 0, "none")
  /\ IF LoopOutOfBounds(data, num_bits)
     THEN /\ ret_str' \in {<<>>, <<"0">>, <<"1">>}
          /\ status' = "ub"
     ELSE /\ ret_str' = ToStringOf(data, num_bits)
          /\ UNCHANGED status
  /\ ret_bool' = FALSE
  /\ ret_size' = 0
  /\ UNCHANGED <<data, num_bits, ctor_size>>

Calls ==
  \/ \E pos \in Positions : set(pos)
  \/ \E pos \in Positions : clear(pos)
  \/ \E pos \in Positions : toggle(pos)
  \/ \E pos \in Positions : test(pos)
  \/ size
  \/ count
  \/ to_string

Next ==
  \/ \E sz \in Capacities : bit_vector(sz)
  \/ Calls

Spec == Init /\ [][Next]_vars

\* the same program with the capacities whose storage length wraps
NextWide ==
  \/ \E sz \in Capacities \cup WrapCapacities : bit_vector(sz)
  \/ Calls

SpecWide == Init /\ [][NextWide]_vars

----------------------------------------------------------------------------
(* Vocabulary of the properties *)

\* the value of logical position p as the data model defines it: bit p % 8
\* (bit 0 least significant) of storage unit p / 8
BitOf(d, p) == Bit(d[(p \div BITS_PER_BYTE) + 1], p % BITS_PER_BYTE) = 1

\* the positions of the vector
ValidPositions == 0 .. (num_bits - 1)

\* the smallest number of 8-bit units that holds n bits, over the integers
CeilDiv8(n) == (n + 7) \div 8

\* a size_t value that is a negative number seen through the unsigned type
NegativeEquivalent(x) == x >= IndexMod \div 2

AllZero(d) == \A i \in 1 .. Len(d) : d[i] = 0

----------------------------------------------------------------------------
(* Properties *)

\* C1: a call of set, clear, toggle or test with pos >= capacity ends with
\* out_of_range and leaves the capacity and every storage unit as they were.
C1_OutOfRangeLeavesState ==
  (op \in Accessors /\ arg >= num_bits) =>
     /\ err = "out_of_range"
     /\ data = pre
     /\ num_bits = ctor_size
     /\ status = "live"

C1_Witness ==
  /\ op = "toggle"
  /\ err = "out_of_range"
  /\ arg = num_bits
  /\ num_bits > BITS_PER_BYTE
  /\ ~AllZero(data)

\* C2: after a successful set(pos), test(pos) is true; after a successful
\* clear(pos), also one that follows that set, test(pos) is false.
C2_SetThenClear ==
  (status = "live" /\ err = "none") =>
     /\ (op = "set" => TestBit(data, arg))
     /\ (op = "clear" => ~TestBit(data, arg))

C2_Witness ==
  /\ op = "clear"
  /\ prevOp = "set"
  /\ err = "none"
  /\ arg >= BITS_PER_BYTE
  /\ TestBit(pre, arg)
  /\ ~TestBit(data, arg)

\* C3: a successful toggle(pos) negates test(pos), and a second toggle(pos)
\* right after it restores every storage unit to its value before the first.
C3_ToggleSelfInverse ==
  [][ (op' = "toggle" /\ err' = "none") =>
        /\ TestBit(data', arg') = ~TestBit(data, arg')
        /\ (op = "toggle" /\ err = "none" /\ arg = arg') =>
              (data' = pre /\ num_bits' = num_bits) ]_vars

C3_Witness ==
  /\ op = "toggle"
  /\ prevOp = "toggle"
  /\ err = "none"
  /\ arg >= BITS_PER_BYTE
  /\ ~AllZero(data)
  /\ TestBit(data, arg) = ~TestBit(pre, arg)

\* C4: count() is the number of valid positions whose test is true; it is 0
\* right after construction and for capacity 0, and never exceeds capacity.
C4_CountMatchesTest ==
  status = "live" =>
     LET c == CountOf(data, num_bits) IN
     /\ c = Cardinality({p \in ValidPositions : TestBit(data, p)})
     /\ c <= num_bits
     /\ (op = "construct" => c = 0)
     /\ (num_bits = 0 => c = 0)
     /\ (op = "count" => ret_size = c)

C4_Witness ==
  /\ op = "count"
  /\ ret_size = 2
  /\ num_bits > BITS_PER_BYTE
  /\ TestBit(data, 0)
  /\ TestBit(data, BITS_PER_BYTE)

\* C5: to_string() has length size() and its character at index i is "1"
\* when test(i) is true and "0" otherwise, position 0 first.
C5_ToStringMatchesTest ==
  status = "live" =>
     LET s == ToStringOf(data, num_bits) IN
     /\ Len(s) = SizeOf(data, num_bits)
     /\ \A i \in ValidPositions :
           s[i + 1] = (IF TestBit(data, i) THEN "1" ELSE "0")
     /\ (num_bits = 0 => s = <<>>)
     /\ (num_bits = 10 /\ data = <<136, 0>> =>
           s = <<"0", "0", "0", "1", "0", "0", "0", "1", "0", "0">>)
     /\ (op = "to_string" => ret_str = s)

C5_Witness ==
  /\ op = "to_string"
  /\ num_bits = 10
  /\ data = <<136, 0>>
  /\ ret_str = <<"0", "0", "0", "1", "0", "0", "0", "1", "0", "0">>

\* C6: size() is the capacity the constructor was given, in every state
\* after construction and whatever calls were made.
C6_SizeIsConstructedCapacity ==
  status = "live" =>
     /\ num_bits = ctor_size
     /\ SizeOf(data, num_bits) = ctor_size
     /\ (op = "size" => ret_size = ctor_size)

C6_Witness ==
  /\ op = "size"
  /\ ret_size = ctor_size
  /\ ctor_size > BITS_PER_BYTE
  /\ ~AllZero(data)

\* C7: constructing with a negative-equivalent capacity raises an error and
\* yields no vector.
C7_NegativeCapacityRaises ==
  (op = "construct" /\ NegativeEquivalent(arg)) =>
     (err # "none" /\ status # "live")

\* C8: the storage length is ceil(capacity / 8) from construction on, and no
\* access that passed the range check falls outside the storage.
C8_StorageLength ==
  status # "none" =>
     /\ Len(data) = CeilDiv8(num_bits)
     /\ status # "ub"

\* C9: the storage refines an array of capacity booleans: all false after
\* construction, test(p) is bit p % 8 of storage[p / 8], and a successful
\* set, clear or toggle gives pos its new value and changes no other position.
C9_PackedRefinesArray ==
  status = "live" =>
     /\ \A p \in ValidPositions : TestBit(data, p) = BitOf(data, p)
     /\ (op = "construct" => \A p \in ValidPositions : ~BitOf(data, p))
     /\ (op = "test" /\ err = "none" => ret_bool = BitOf(data, arg))
     /\ (op \in Mutators /\ err = "none") =>
           /\ \A p \in ValidPositions \ {arg} : BitOf(data, p) = BitOf(pre, p)
           /\ BitOf(data, arg) = (CASE op = "set" -> TRUE
                                    [] op = "clear" -> FALSE
                                    [] op = "toggle" -> ~BitOf(pre, arg))

C9_Witness ==
  /\ op = "toggle"
  /\ err = "none"
  /\ arg = BITS_PER_BYTE
  /\ num_bits > BITS_PER_BYTE
  /\ data[2] = 1
  /\ data[1] = 129

\* C10: every bit of the storage at a position >= capacity is 0 and every
\* storage unit is within 0..255.
C10_TailPaddingZero ==
  status = "live" =>
     /\ \A i \in 1 .. Len(data) : data[i] \in 0 .. 255
     /\ \A p \in num_bits .. (BITS_PER_BYTE * Len(data) - 1) : ~BitOf(data, p)

C10_Witness ==
  /\ num_bits = BITS_PER_BYTE + 1
  /\ data = <<255, 1>>
  /\ err = "out_of_range"
  /\ arg = num_bits

====
